---- MODULE Spec2Model ----
(***************************************************************************)
(* Model of src/Ejemplo.py: descriptive analysis of the GDP series of one  *)
(* country.  The script is a straight-line pipeline; each numbered section *)
(* of the script is one action.  Floating-point cells are modelled as      *)
(* extended rationals: an exact fraction n/d, NaN, or a signed infinity.   *)
(* A square root is kept symbolically (sign and the fraction under the     *)
(* root).                                                                  *)
(***************************************************************************)
EXTENDS Integers, Sequences, FiniteSets, TLC

\* ------------------------------------------------------------------ bounds
\* Largest number of rows of the loaded CSV.
MaxRows == 3

\* ------------------------------------------------------- float arithmetic
Abs(x) == IF x < 0 THEN -x ELSE x

Sign(x) == IF x < 0 THEN -1 ELSE IF x = 0 THEN 0 ELSE 1

RECURSIVE GCD(_, _)
GCD(a, b) == IF b = 0 THEN a ELSE GCD(b, a % b)

\* The float n/d (d # 0), in lowest terms with a positive denominator.
Num(n, d) ==
  LET s == IF d < 0 THEN -1 ELSE 1
      g == GCD(Abs(n), Abs(d))
  IN  [k |-> "num", n |-> (s * n) \div g, d |-> (s * d) \div g]

NaN == [k |-> "nan", n |-> 0, d |-> 1]

Inf(s) == [k |-> "inf", n |-> s, d |-> 1]

\* A name that has not been assigned yet.
Unset == [k |-> "unset", n |-> 0, d |-> 1]

IsNum(a) == a.k = "num"

IsNaN(a) == a.k = "nan"

IsInf(a) == a.k = "inf"

\* pandas isna/notna: only NaN is missing; an infinity is a value.
NotNa(a) == a.k # "nan"

\* a < b on non-NaN floats.
Less(a, b) ==
  CASE IsInf(a) /\ IsInf(b) -> a.n < b.n
    [] IsInf(a) -> a.n < 0
    [] IsInf(b) -> b.n > 0
    [] OTHER -> a.n * b.d < b.n * a.d

Leq(a, b) == a = b \/ Less(a, b)

\* IEEE-754 addition.
FAdd(a, b) ==
  CASE IsNaN(a) \/ IsNaN(b) -> NaN
    [] IsInf(a) /\ IsInf(b) -> IF a.n = b.n THEN a ELSE NaN
    [] IsInf(a) -> a
    [] IsInf(b) -> b
    [] OTHER -> Num(a.n * b.d + b.n * a.d, a.d * b.d)

FNeg(a) ==
  CASE IsNaN(a) -> NaN
    [] IsInf(a) -> Inf(-a.n)
    [] OTHER -> Num(-a.n, a.d)

FSub(a, b) == FAdd(a, FNeg(b))

\* IEEE-754 multiplication.
FMul(a, b) ==
  CASE IsNaN(a) \/ IsNaN(b) -> NaN
    [] IsInf(a) \/ IsInf(b) ->
         IF Sign(a.n) * Sign(b.n) = 0 THEN NaN ELSE Inf(Sign(a.n) * Sign(b.n))
    [] OTHER -> Num(a.n * b.n, a.d * b.d)

\* IEEE-754 division as numpy performs it: x/0 is a signed infinity, 0/0 is
\* NaN, and neither raises.
FDiv(a, b) ==
  CASE IsNaN(a) \/ IsNaN(b) -> NaN
    [] IsInf(a) /\ IsInf(b) -> NaN
    [] IsInf(a) -> Inf(a.n * (IF b.n < 0 THEN -1 ELSE 1))
    [] IsInf(b) -> Num(0, 1)
    [] b.n = 0 -> IF a.n = 0 THEN NaN ELSE Inf(Sign(a.n))
    [] OTHER -> Num(a.n * b.d, a.d * b.n)

\* s * sqrt(n/d), kept symbolically; s is -1, 0 or 1.
Surd(s, n, d) == [k |-> "surd", s |-> s, n |-> n, d |-> d]

\* Square root of a float that is NaN or a fraction >= 0.
FSqrt(a) ==
  IF IsNaN(a) THEN NaN
  ELSE IF a.n = 0 THEN Surd(0, 0, 1) ELSE Surd(1, a.n, a.d)

\* (r / m) * c for r a symbolic root (or NaN), m and c floats with c > 0.
SurdDivMul(r, m, c) ==
  CASE IsNaN(r) \/ IsNaN(m) -> NaN
    [] m.n = 0 -> IF r.s = 0 THEN NaN ELSE Inf(r.s)
    [] r.s = 0 -> Surd(0, 0, 1)
    [] OTHER ->
         LET q == FMul(FDiv(Num(r.n, r.d), FMul(m, m)), FMul(c, c))
         IN  Surd(r.s * Sign(m.n), q.n, q.d)

\* ------------------------------------------------------------ sequences
\* The subsequence of the entries that are not NaN (skipna / dropna).
RECURSIVE DropNa(_)
DropNa(s) ==
  IF s = <<>> THEN <<>>
  ELSE IF NotNa(Head(s)) THEN <<Head(s)>> \o DropNa(Tail(s))
  ELSE DropNa(Tail(s))

RECURSIVE FSum(_)
FSum(s) == IF s = <<>> THEN Num(0, 1) ELSE FAdd(Head(s), FSum(Tail(s)))

\* Position of the first smallest entry of a non-empty sequence without NaN.
RECURSIVE ArgMinPos(_)
ArgMinPos(s) ==
  IF Len(s) = 1 THEN 1
  ELSE LET r == 1 + ArgMinPos(Tail(s))
       IN  IF Less(s[r], s[1]) THEN r ELSE 1

RemoveAt(s, p) == SubSeq(s, 1, p - 1) \o SubSeq(s, p + 1, Len(s))

\* Ascending sort.
RECURSIVE SortAsc(_)
SortAsc(s) ==
  IF s = <<>> THEN <<>>
  ELSE LET p == ArgMinPos(s) IN <<s[p]>> \o SortAsc(RemoveAt(s, p))

Count(s, x) == Cardinality({i \in 1..Len(s) : s[i] = x})


\* ------------------------------------------------------------ the tables
\* A table is the sequence of its rows; a row is a function from column
\* names to cells.  The column "index" holds the row's index label.
Col(t, c) == [i \in 1..Len(t) |-> t[i][c]]

\* t[c] = v: the table with column c set to the sequence v, row by row.
SetCol(t, c, v) == [i \in 1..Len(t) |-> (c :> v[i]) @@ t[i]]

\* The rows of t at which mask is TRUE, in their order (boolean indexing).
RECURSIVE BoolIndex(_, _)
BoolIndex(t, mask) ==
  IF t = <<>> THEN <<>>
  ELSE (IF Head(mask) THEN <<Head(t)>> ELSE <<>>)
         \o BoolIndex(Tail(t), Tail(mask))

\* read_csv gives the frame a RangeIndex: row i (from 1) has label i - 1.
RangeIndexed(rows) == [i \in 1..Len(rows) |-> ("index" :> (i - 1)) @@ rows[i]]

\* A name without surrounding blanks and in lower case, for the names of the
\* input.
Normalized(name) ==
  CASE name = "Colombia" -> "colombia"
    [] name = "Colombia " -> "colombia"
    [] OTHER -> name

\* Variant of EqMask that compares the names after trimming and case folding.
EqMaskNormalized(t, name) ==
  [i \in 1..Len(t) |-> Normalized(t[i]["Country Name"]) = Normalized(name)]

\* df["Country Name"] == name, an element-wise exact string comparison.
EqMask(t, name) == [i \in 1..Len(t) |-> t[i]["Country Name"] = name]

\* df[df["Country Name"] == name].copy()
FilterCountry(t, name) == BoolIndex(t, EqMask(t, name))

\* t.loc[label, c] for a label the index holds exactly once.
Loc(t, label, c) == (CHOOSE r \in {t[i] : i \in 1..Len(t)} : r["index"] = label)[c]

\* ---------------------------------------------------------- to_numeric
Digits == <<"0", "1", "2", "3", "4", "5", "6", "7", "8", "9">>

IsDigit(c) == \E v \in 1..Len(Digits) : Digits[v] = c

DigitVal(c) == (CHOOSE v \in 1..Len(Digits) : Digits[v] = c) - 1

\* The value of a non-empty sequence of digits.
RECURSIVE ParseNat(_)
ParseNat(s) ==
  IF Len(s) = 1 THEN DigitVal(s[1])
  ELSE 10 * ParseNat(SubSeq(s, 1, Len(s) - 1)) + DigitVal(s[Len(s)])

\* pd.to_numeric(cell, errors="coerce") on the text of a CSV cell (a
\* sequence of characters): an optionally signed run of digits is its
\* value, any other text is NaN.
ToNumeric(s) ==
  LET signed == s # <<>> /\ Head(s) \in {"-", "+"}
      body == IF signed THEN Tail(s) ELSE s
  IN  IF body = <<>> \/ \E i \in 1..Len(body) : ~IsDigit(body[i]) THEN NaN
      ELSE Num((IF signed /\ Head(s) = "-" THEN -1 ELSE 1) * ParseNat(body), 1)

\* ------------------------------------------------------- Series reductions
\* Series.mean(): NaN skipped; NaN for no values.
Mean(col) ==
  LET S == DropNa(col)
  IN  IF S = <<>> THEN NaN ELSE FDiv(FSum(S), Num(Len(S), 1))

\* Series.median(): middle of the sorted values, mean of the two middles
\* for an even count.
Median(col) ==
  LET S == SortAsc(DropNa(col))
      n == Len(S)
  IN  IF n = 0 THEN NaN
      ELSE IF n % 2 = 1 THEN S[(n + 1) \div 2]
      ELSE FDiv(FAdd(S[n \div 2], S[n \div 2 + 1]), Num(2, 1))

\* Series.mode(): the most frequent values (NaN dropped), sorted ascending.
Mode(col) ==
  LET S == DropNa(col)
      most == {x \in {S[i] : i \in 1..Len(S)} :
                 \A j \in 1..Len(S) : Count(S, S[j]) <= Count(S, x)}
      firsts == {i \in 1..Len(S) : S[i] \in most /\ \A j \in 1..(i - 1) : S[j] # S[i]}
  IN  SortAsc(BoolIndex(S, [i \in 1..Len(S) |-> i \in firsts]))

\* Series.max()
Max(col) ==
  LET S == SortAsc(DropNa(col))
  IN  IF S = <<>> THEN NaN ELSE S[Len(S)]

\* Series.min()
Min(col) ==
  LET S == SortAsc(DropNa(col))
  IN  IF S = <<>> THEN NaN ELSE S[1]

\* Variant of Var with the population denominator (ddof = 0).
VarPopulation(col) ==
  LET S == DropNa(col)
      avg == IF S = <<>> THEN NaN ELSE FDiv(FSum(S), Num(Len(S), 1))
      dev == [i \in 1..Len(S) |-> FMul(FSub(S[i], avg), FSub(S[i], avg))]
  IN  IF Len(S) <= 1 THEN NaN ELSE FDiv(FSum(dev), Num(Len(S), 1))

\* Series.var(): sample variance (ddof = 1); NaN for fewer than two values.
Var(col) ==
  LET S == DropNa(col)
      avg == Mean(col)
      dev == [i \in 1..Len(S) |-> FMul(FSub(S[i], avg), FSub(S[i], avg))]
  IN  IF Len(S) <= 1 THEN NaN ELSE FDiv(FSum(dev), Num(Len(S) - 1, 1))

\* Series.std()
Std(col) == FSqrt(Var(col))

\* Variant of FirstPos that takes the last entry equal to v.
LastPos(col, v) ==
  CHOOSE i \in 1..Len(col) : col[i] = v /\ \A j \in (i + 1)..Len(col) : col[j] # v

\* Position of the first entry equal to v.
FirstPos(col, v) == CHOOSE i \in 1..Len(col) : col[i] = v /\ \A j \in 1..(i - 1) : col[j] # v

\* Series.idxmax() on a column with a non-NaN entry: the index label of the
\* first occurrence of the maximum.
IdxMax(t, c) == t[FirstPos(Col(t, c), Max(Col(t, c)))]["index"]

\* Series.idxmin()
IdxMin(t, c) == t[FirstPos(Col(t, c), Min(Col(t, c)))]["index"]

\* int(x) for a finite float: truncation towards zero.
IntOf(a) == Sign(a.n) * (Abs(a.n) \div a.d)

\* ----------------------------------------------------------- pct_change
\* Series.ffill(): a NaN takes the last value before it, if there is one.
RECURSIVE FFill(_)
FFill(col) ==
  IF Len(col) <= 1 THEN col
  ELSE LET front == FFill(SubSeq(col, 1, Len(col) - 1))
           last == col[Len(col)]
       IN  Append(front, IF IsNaN(last) THEN front[Len(front)] ELSE last)

\* Series.shift(1)
Shift(col) == [i \in 1..Len(col) |-> IF i = 1 THEN NaN ELSE col[i - 1]]

\* Variant of PctChange that takes the change relative to the row itself
\* instead of its predecessor.
PctChangeOverCurrent(col, pad) ==
  LET data == IF pad THEN FFill(col) ELSE col
      shifted == Shift(data)
  IN  [i \in 1..Len(col) |-> FSub(Num(1, 1), FDiv(shifted[i], data[i]))]

\* Series.pct_change() with its default arguments: data / data.shift(1) - 1,
\* where data is the column forward-filled when the installed pandas still
\* defaults to fill_method="pad" (pandas 1.x and 2.x) and the column itself
\* otherwise (pandas 3).
PctChange(col, pad) ==
  LET data == IF pad THEN FFill(col) ELSE col
      shifted == Shift(data)
  IN  [i \in 1..Len(col) |-> FSub(FDiv(data[i], shifted[i]), Num(1, 1))]

\* Series * 100
Times100(col) == [i \in 1..Len(col) |-> FMul(col[i], Num(100, 1))]


\* ---------------------------------------------------------------- inputs
\* The country the script keeps.
Target == "Colombia"

\* Texts of the Year cell of a CSV row.
YearTexts == {<<"1", "9", "6", "0">>, <<"1", "9", "6", "1">>, <<"s", "/", "f">>}

\* Texts of the Value cell of a CSV row.
ValueTexts ==
  {<<"1", "0", "0">>, <<"1", "1", "0">>, <<"0">>, <<"-", "1", "0", "0">>, <<"n", "d">>}

\* Rows of the CSV: for the target country, every Value text under each
\* numeric Year and the non-zero amounts under the unreadable Year; and one
\* row each of two names that differ from the target by case and by a
\* trailing blank.
CsvRows ==
  {("Country Name" :> Target) @@ ("Year" :> y) @@ ("Value" :> v) :
     y \in YearTexts \ {<<"s", "/", "f">>}, v \in ValueTexts}
  \cup {("Country Name" :> Target) @@ ("Year" :> <<"s", "/", "f">>) @@ ("Value" :> v) :
          v \in {<<"1", "0", "0">>, <<"1", "1", "0">>}}
  \cup {("Country Name" :> "colombia") @@ ("Year" :> <<"1", "9", "6", "0">>)
          @@ ("Value" :> <<"1", "0", "0">>),
        ("Country Name" :> "Colombia ") @@ ("Year" :> <<"1", "9", "6", "1">>)
          @@ ("Value" :> <<"1", "1", "0">>)}

\* The installed pandas: releases 1.x and 2.x forward-fill in pct_change and
\* give NaN for the idxmax of an all-NaN column; release 3 does not fill and
\* raises ValueError there.
Builds == {"pandas2", "pandas3"}

PadDefault(b) == b = "pandas2"

\* ----------------------------------------------------------------- state
VARIABLES
  build,          \* the installed pandas (line 6)
  df,             \* the loaded frame (line 18)
  colombia,       \* the working frame (line 29; columns added at 40, 41, 71)
  media, mediana, moda, rango, varianza, desviacion, coef_variacion,  \* lines 48-54
  crec_max, crec_min, anio_max, anio_min,                             \* lines 138-141
  salida,         \* the section titles written to the console so far
  error,          \* the exception that ended the script, "" if none
  pc              \* the section of the script to run next

medidas == <<media, mediana, moda, rango, varianza, desviacion, coef_variacion>>

conclusiones == <<crec_max, crec_min, anio_max, anio_min>>

vars == <<build, df, colombia, medidas, conclusiones, salida, error, pc>>

\* Section 1: the frame is loaded and its first rows are shown.
Init ==
  /\ build \in Builds
  /\ \E n \in 0..MaxRows : \E rows \in [1..n -> CsvRows] : df = RangeIndexed(rows)
  /\ colombia = <<>>
  /\ media = Unset /\ mediana = Unset /\ moda = Unset /\ rango = Unset
  /\ varianza = Unset /\ desviacion = Unset /\ coef_variacion = Unset
  /\ crec_max = Unset /\ crec_min = Unset /\ anio_max = Unset /\ anio_min = Unset
  /\ salida = <<"PRIMERAS FILAS DEL DATASET GLOBAL">>
  /\ error = ""
  /\ pc = "filtrar"

\* Section 2: keep the rows of the target country, as a copy.
Filtrar ==
  /\ pc = "filtrar"
  /\ colombia' = FilterCountry(df, Target)
  /\ salida' = Append(salida, "DATOS DE COLOMBIA")
  /\ pc' = "limpiar"
  /\ UNCHANGED <<build, df, medidas, conclusiones, error>>

\* Section 3: the numeric columns.
Limpiar ==
  /\ pc = "limpiar"
  /\ colombia' =
       LET t == SetCol(colombia, "Anio",
                       [i \in 1..Len(colombia) |-> ToNumeric(colombia[i]["Year"])])
       IN  SetCol(t, "PIB (USD)", [i \in 1..Len(t) |-> ToNumeric(t[i]["Value"])])
  /\ pc' = "medidas"
  /\ UNCHANGED <<build, df, medidas, conclusiones, salida, error>>

\* (desviacion / media) * 100
CoefVariacion(desv, med) == SurdDivMul(desv, med, Num(100, 1))

\* Section 4: the seven statistics.  mode()[0] raises KeyError when the
\* column has no value, after the mean and the median were assigned.
Medidas ==
  /\ pc = "medidas"
  /\ LET pib == Col(colombia, "PIB (USD)")
     IN  /\ media' = Mean(pib)
         /\ mediana' = Median(pib)
         /\ IF Mode(pib) = <<>>
            THEN /\ error' = "KeyError"
                 /\ pc' = "error"
                 /\ UNCHANGED <<moda, rango, varianza, desviacion, coef_variacion, salida>>
            ELSE /\ moda' = Mode(pib)[1]
                 /\ rango' = FSub(Max(pib), Min(pib))
                 /\ varianza' = Var(pib)
                 /\ desviacion' = Std(pib)
                 /\ coef_variacion' = CoefVariacion(Std(pib), Mean(pib))
                 /\ salida' = Append(salida, "MEDIDAS DE TENDENCIA CENTRAL Y DISPERSION")
                 /\ pc' = "crecimiento"
                 /\ UNCHANGED error
  /\ UNCHANGED <<build, df, colombia, conclusiones>>

\* Section 5: the growth column.
Crecimiento ==
  /\ pc = "crecimiento"
  /\ colombia' =
       SetCol(colombia, "Crecimiento (%)",
              Times100(PctChange(Col(colombia, "PIB (USD)"), PadDefault(build))))
  /\ pc' = "graficos"
  /\ UNCHANGED <<build, df, medidas, conclusiones, salida, error>>

\* Section 6: the five charts read the working frame and change nothing.
Graficos ==
  /\ pc = "graficos"
  /\ pc' = "conclusiones"
  /\ UNCHANGED <<build, df, colombia, medidas, conclusiones, salida, error>>

\* Section 7: the extreme growths and their years.  The lookup of the year
\* raises when the growth column has no value (KeyError from .loc[nan] or
\* ValueError from idxmax, by build), and int() raises ValueError on a NaN
\* year.
Conclusiones ==
  /\ pc = "conclusiones"
  /\ LET crec == Col(colombia, "Crecimiento (%)")
     IN  /\ crec_max' = Max(crec)
         /\ crec_min' = Min(crec)
         /\ IF DropNa(crec) = <<>>
            THEN /\ error' = (IF build = "pandas2" THEN "KeyError" ELSE "ValueError")
                 /\ pc' = "error"
                 /\ UNCHANGED <<anio_max, anio_min, salida>>
            ELSE LET ymax == Loc(colombia, IdxMax(colombia, "Crecimiento (%)"), "Anio")
                     ymin == Loc(colombia, IdxMin(colombia, "Crecimiento (%)"), "Anio")
                 IN  IF IsNaN(ymax)
                     THEN /\ error' = "ValueError"
                          /\ pc' = "error"
                          /\ UNCHANGED <<anio_max, anio_min, salida>>
                     ELSE IF IsNaN(ymin)
                     THEN /\ anio_max' = IntOf(ymax)
                          /\ error' = "ValueError"
                          /\ pc' = "error"
                          /\ UNCHANGED <<anio_min, salida>>
                     ELSE /\ anio_max' = IntOf(ymax)
                          /\ anio_min' = IntOf(ymin)
                          /\ salida' = Append(salida, "CONCLUSIONES")
                          /\ pc' = "fin"
                          /\ UNCHANGED error
  /\ UNCHANGED <<build, df, colombia, medidas>>

Next == Filtrar \/ Limpiar \/ Medidas \/ Crecimiento \/ Graficos \/ Conclusiones

Spec == Init /\ [][Next]_vars


\* ================================================================ claims
\* The working frame has column c (and at least one row).
HasCol(c) == colombia # <<>> /\ c \in DOMAIN colombia[1]

pib(i) == colombia[i]["PIB (USD)"]

crec(i) == colombia[i]["Crecimiento (%)"]

anio(i) == colombia[i]["Anio"]

Hundred == Num(100, 1)

C2_MissingPropagates ==
  HasCol("Crecimiento (%)") =>
    \A i \in 2..Len(colombia) :
      (IsNaN(pib(i)) \/ IsNaN(pib(i - 1))) => IsNaN(crec(i))

\* C3: a zero predecessor gives a missing growth, never an infinity, and the
\* extreme growths of the report are finite.
C3_ZeroPredecessorMissing ==
  /\ HasCol("Crecimiento (%)") =>
       \A i \in 2..Len(colombia) : (pib(i - 1) = Num(0, 1)) => IsNaN(crec(i))
  /\ crec_max # Unset => ~IsInf(crec_max) /\ ~IsInf(crec_min)

\* C4: with no row of the target country the script does not end in an
\* uncaught exception.
C4_EmptyTableNoException ==
  (pc # "filtrar" /\ colombia = <<>>) => error = ""

\* C5: with rows but no growth value at all (one row, or no readable
\* amount) the script does not end in an uncaught exception.
C5_NoGrowthNoException ==
  (\/ HasCol("Crecimiento (%)") /\ \A i \in 1..Len(colombia) : IsNaN(crec(i))
   \/ HasCol("PIB (USD)") /\ \A i \in 1..Len(colombia) : IsNaN(pib(i)))
    => error = ""

C7_UnparseableRecoverable ==
  (HasCol("Crecimiento (%)") /\ \E i \in 1..Len(colombia) : NotNa(crec(i)))
    => error = ""

\* C8: each statistic is determined by the readable amounts alone (the rows
\* with a missing amount change none of them): n * mean is their sum, the
\* median is that of their subsequence and lies between min and max, the
\* range is max - min, for two values or more the variance is the sample
\* variance (n * (n-1) * var = n * sum of squares - square of the sum) and
\* is >= 0, the deviation is its root, and the mode is the smallest of the
\* most frequent values.
C8_StatsOverPresent ==
  rango # Unset =>
    LET P == {i \in 1..Len(colombia) : IsNum(pib(i))}
        S == BoolIndex(Col(colombia, "PIB (USD)"), [i \in 1..Len(colombia) |-> i \in P])
        n == Cardinality(P)
        sum == FSum(S)
        sumsq == FSum([i \in 1..Len(S) |-> FMul(S[i], S[i])])
        freq == [i \in P |-> Cardinality({j \in P : pib(j) = pib(i)})]
    IN  /\ n >= 1
        /\ FMul(media, Num(n, 1)) = sum
        /\ mediana = Median(S)
        /\ \E lo, hi \in P :
             /\ \A i \in P : Leq(pib(lo), pib(i)) /\ Leq(pib(i), pib(hi))
             /\ rango = FSub(pib(hi), pib(lo))
             /\ Leq(pib(lo), mediana) /\ Leq(mediana, pib(hi))
        /\ 2 * Cardinality({i \in P : Less(pib(i), mediana)}) <= n
        /\ 2 * Cardinality({i \in P : Less(mediana, pib(i))}) <= n
        /\ n >= 2 =>
             /\ IsNum(varianza) /\ varianza.n >= 0
             /\ FMul(varianza, Num(n * (n - 1), 1))
                  = FSub(FMul(Num(n, 1), sumsq), FMul(sum, sum))
        /\ desviacion = FSqrt(varianza)
        /\ \E m \in P :
             /\ moda = pib(m)
             /\ \A i \in P : freq[i] <= freq[m]
             /\ \A i \in P : freq[i] = freq[m] => Leq(moda, pib(i))

\* The statistics were computed for a frame with a missing amount and two
\* different readable amounts, equally frequent.
C8_Witness ==
  /\ rango # Unset
  /\ \E i \in 1..Len(colombia) : IsNaN(pib(i))
  /\ \E i, j \in 1..Len(colombia) : IsNum(pib(i)) /\ IsNum(pib(j)) /\ Less(pib(i), pib(j))
  /\ rango # Num(0, 1)
  /\ IsNum(varianza)

\* C9: the coefficient of variation is missing, not infinite, when the mean
\* is zero, and (standard deviation / mean) * 100 otherwise.
C9_CoefVariation ==
  coef_variacion # Unset =>
    /\ media = Num(0, 1) => IsNaN(coef_variacion)
    /\ (IsNum(media) /\ media.n # 0 /\ IsNum(varianza)) =>
         /\ coef_variacion.k = "surd"
         /\ coef_variacion.s = Sign(media.n) * Sign(varianza.n)
         /\ Num(coef_variacion.n, coef_variacion.d)
              = FDiv(FMul(varianza, Num(10000, 1)), FMul(media, media))

\* The rows of the working frame are exactly the rows of the loaded frame
\* named "Colombia", in the loaded order, with their cells.
C10_ExactRowsInOrder ==
  pc # "filtrar" =>
    /\ Len(colombia) = Cardinality({i \in 1..Len(df) : df[i]["Country Name"] = "Colombia"})
    /\ \A r \in 1..Len(colombia) :
         LET src == df[colombia[r]["index"] + 1]
         IN  /\ colombia[r]["index"] \in 0..(Len(df) - 1)
             /\ src["Country Name"] = "Colombia"
             /\ \A c \in {"Country Name", "Year", "Value"} : colombia[r][c] = src[c]
    /\ \A r \in 1..(Len(colombia) - 1) : colombia[r]["index"] < colombia[r + 1]["index"]

\* C10: the working frame holds exactly the rows whose name is the target,
\* character for character, in their order, through every later section;
\* and no section changes the loaded frame.
C10_FilterAndFrame == [] C10_ExactRowsInOrder /\ [][df' = df]_vars

\* The script ran to its end on a frame that also held rows named
\* "colombia" and "Colombia " ahead of rows of the target.
C10_Witness ==
  /\ pc = "fin"
  /\ Len(df) = 3
  /\ df[1]["Country Name"] \in {"colombia", "Colombia "}
  /\ Len(colombia) = 2
  /\ HasCol("Crecimiento (%)")

====
